---- MODULE Spec2Model ----
(***************************************************************************)
(* nixt: lexer, recursive-descent parser and tree-walking evaluator.       *)
(*                                                                         *)
(* Three specifications share this module:                                 *)
(*   Spec        the evaluator (src/core/interpreter.rs) run on a tree     *)
(*   SpecLexer   the lexer (src/core/lexer.rs) run on a source string      *)
(*   SpecParser  the parser (src/core/parser.rs) run on a token sequence   *)
(* Each one keeps the variables of the other two at their idle values.     *)
(***************************************************************************)
EXTENDS Integers, Sequences, FiniteSets, TLC

VARIABLES
  ast,        \* Interpreter.ast: the tree handed to run
  scopes,     \* Interpreter.scopes: Vec<BTreeMap<String, (Value, bool)>>
  stack,      \* the call stack of process_node: one frame per active call
  result,     \* what run returns: "running" until it returns, "ok", or the Err string
  source,     \* Lexer.source, a sequence of characters
  tokens,     \* Lexer.tokens
  start,      \* Lexer.start
  current,    \* Lexer.current
  line,       \* Lexer.line
  errors,     \* Lexer.errors
  lpc,        \* where scan_tokens is: "idle", "scan", "done", "panic"
  parser,     \* the Parser struct: tokens, ast, current, had_error, errors, line
  ppc         \* where parse is: "idle", "parse", "done", "panic"

evalVars == <<ast, scopes, stack, result>>
lexVars == <<source, tokens, start, current, line, errors, lpc>>
parseVars == <<parser, ppc>>
vars == <<ast, scopes, stack, result, source, tokens, start, current, line, errors, lpc, parser, ppc>>

(***************************************************************************)
(* Bounds of the model                                                     *)
(***************************************************************************)
\* number literals of the generated programs are 1..MaxNum
MaxNum == 2
\* the sources of the lexer have at most MaxSrcLen characters
MaxSrcLen == 3
\* the token sequences of the parser have at most MaxTokens tokens before Eof
MaxTokens == 4
\* the longest body of a block comment
MaxBody == 2

(***************************************************************************)
(* Syntax nodes (utils/node.rs: Node, NodeType) and runtime values         *)
(* (utils/elements.rs: Value).  A node is a record of its type, its        *)
(* payload (s: a name or variant, n: a number) and its children.           *)
(***************************************************************************)
Node(type, s, n, children) == [type |-> type, s |-> s, n |-> n, children |-> children]

NodeNone == Node("None", "", 0, <<>>)
NodeNumber(n) == Node("NodeNumber", "", n, <<>>)
NodeBool(b) == Node("NodeBool", "", IF b THEN 1 ELSE 0, <<>>)
NodeStr(s) == Node("NodeStr", s, 0, <<>>)
NodeIdentifier(s) == Node("NodeIdentifier", s, 0, <<>>)
Block(children) == Node("Block", "", 0, children)
Scope(children) == Node("Scope", "", 0, children)
Operator(op, lhs, rhs) == Node("Operator", op, 0, <<lhs, rhs>>)
Assignement(a, name, value) == Node("Assignement", a, 0, <<name, value>>)

\* Value: Number(f32), Nil, Bool, String, Block(Node).  Numbers are the
\* integers; NumberOther stands for a Number that is no integer (a fraction,
\* an infinity or NaN out of a division).
Value(t, n, s) == [t |-> t, n |-> n, s |-> s]
Number(n) == Value("Number", n, "")
NumberOther == Value("NumberOther", 0, "")
Nil == Value("Nil", 0, "")
Bool(b) == Value("Bool", IF b THEN 1 ELSE 0, "")
String(s) == Value("String", 0, s)
BoolOther == Value("BoolOther", 0, "")  \* the Bool of a comparison with a NumberOther
FuncValue == Value("Func", 0, "")

\* Result<Value, String>: err is "" for Ok
Ok(v) == [err |-> "", val |-> v]
Err(e) == [err |-> e, val |-> Nil]

ErrNoScopes == "No scopes available. Consider adding a scope to your program"
ErrEditIdentifier == "Found an invalid identifier in variable edition"
ErrRedefineUndefined == "Attempted to redefine an undefined variable"
ErrRedefineConstant == "Attempted to redefine a constant"
ErrDefIdentifier == "Found an invalid identifier in variable declaration"
\* the source formats the name into this message; the model leaves it out
ErrAlreadyPresent == "Attempted to redefine variable that is already present in the current scope"
ErrUndefinedVariable == "Attempted to access an undefined variable"
ErrInvalidElement == "Invalid element"
ErrInvalidOperator == "Invalid operator"
ErrInvalidArgument == "Invalid argument in function declaration"
\* process_inner_block calling itself on the same node: the host stack overflows
AbortStackOverflow == "abort: stack overflow"

(***************************************************************************)
(* Evaluator: src/core/interpreter.rs                                      *)
(***************************************************************************)
\* a scope is a function from the names it binds to [val, c]: (Value, bool)
EmptyScope == [name \in {} |-> [val |-> Nil, c |-> FALSE]]
Binding(v, c) == [val |-> v, c |-> c]

is_defined(scope, name) == name \in DOMAIN scope

add_scope(sc) == Append(sc, EmptyScope)

remove_scope(sc) == IF Len(sc) = 0 THEN sc ELSE SubSeq(sc, 1, Len(sc) - 1)

\* the scopes that bind name, as indexes into the stack
Defining(sc, name) == {i \in 1..Len(sc) : name \in DOMAIN sc[i]}

\* mutant of get_value: the first scope of the stack that has the name wins
get_value_outermost(sc, name) ==
  IF Defining(sc, name) = {} THEN [some |-> FALSE, val |-> Nil]
  ELSE LET i == CHOOSE k \in Defining(sc, name) : \A j \in Defining(sc, name) : k <= j
       IN [some |-> TRUE, val |-> sc[i][name].val]

\* get_value: from the last scope down to the first, the first that has the name
get_value(sc, name) ==
  IF Defining(sc, name) = {} THEN [some |-> FALSE, val |-> Nil]
  ELSE LET i == CHOOSE k \in Defining(sc, name) : \A j \in Defining(sc, name) : j <= k
       IN [some |-> TRUE, val |-> sc[i][name].val]

IsNumber(v) == v.t \in {"Number", "NumberOther"}

\* both operands are modelled Numbers: the result can be computed
Exact(lhs, rhs) == lhs.t = "Number" /\ rhs.t = "Number"

add(lhs, rhs) ==
  IF ~(IsNumber(lhs) /\ IsNumber(rhs)) THEN Nil
  ELSE IF Exact(lhs, rhs) THEN Number(lhs.n + rhs.n) ELSE NumberOther

sub(lhs, rhs) ==
  IF ~(IsNumber(lhs) /\ IsNumber(rhs)) THEN Nil
  ELSE IF Exact(lhs, rhs) THEN Number(lhs.n - rhs.n) ELSE NumberOther

mul(lhs, rhs) ==
  IF ~(IsNumber(lhs) /\ IsNumber(rhs)) THEN Nil
  ELSE IF Exact(lhs, rhs) THEN Number(lhs.n * rhs.n) ELSE NumberOther

Abs(n) == IF n < 0 THEN -n ELSE n
Sign(n) == IF n < 0 THEN -1 ELSE 1

\* lh / rh of two floats is modelled where the quotient is an integer
div(lhs, rhs) ==
  IF ~(IsNumber(lhs) /\ IsNumber(rhs)) THEN Nil
  ELSE IF Exact(lhs, rhs) /\ rhs.n # 0 /\ Abs(lhs.n) % Abs(rhs.n) = 0
       THEN Number(Sign(lhs.n) * Sign(rhs.n) * (Abs(lhs.n) \div Abs(rhs.n)))
       ELSE NumberOther

\* lh % rh of two floats: the remainder has the sign of lh
modulo(lhs, rhs) ==
  IF ~(IsNumber(lhs) /\ IsNumber(rhs)) THEN Nil
  ELSE IF Exact(lhs, rhs) /\ rhs.n # 0
       THEN Number(Sign(lhs.n) * (Abs(lhs.n) % Abs(rhs.n)))
       ELSE NumberOther

\* the orderings compare rh against lh, as the source writes them
leq(lhs, rhs) ==
  IF ~(IsNumber(lhs) /\ IsNumber(rhs)) THEN Nil
  ELSE IF Exact(lhs, rhs) THEN Bool(rhs.n <= lhs.n) ELSE BoolOther

le(lhs, rhs) ==
  IF ~(IsNumber(lhs) /\ IsNumber(rhs)) THEN Nil
  ELSE IF Exact(lhs, rhs) THEN Bool(rhs.n < lhs.n) ELSE BoolOther

geq(lhs, rhs) ==
  IF ~(IsNumber(lhs) /\ IsNumber(rhs)) THEN Nil
  ELSE IF Exact(lhs, rhs) THEN Bool(rhs.n >= lhs.n) ELSE BoolOther

ge(lhs, rhs) ==
  IF ~(IsNumber(lhs) /\ IsNumber(rhs)) THEN Nil
  ELSE IF Exact(lhs, rhs) THEN Bool(rhs.n > lhs.n) ELSE BoolOther

SameKind(lhs, rhs) ==
  \/ IsNumber(lhs) /\ IsNumber(rhs)
  \/ lhs.t \in {"Bool", "BoolOther"} /\ rhs.t \in {"Bool", "BoolOther"}
  \/ lhs.t = "String" /\ rhs.t = "String"
  \/ lhs.t = "Nil" /\ rhs.t = "Nil"

eq(lhs, rhs) ==
  IF ~SameKind(lhs, rhs) THEN Bool(FALSE)
  ELSE IF "NumberOther" \in {lhs.t, rhs.t} \/ "BoolOther" \in {lhs.t, rhs.t} THEN BoolOther
  ELSE Bool(rhs = lhs)

neq(lhs, rhs) ==
  IF ~SameKind(lhs, rhs) THEN Bool(TRUE)
  ELSE IF "NumberOther" \in {lhs.t, rhs.t} \/ "BoolOther" \in {lhs.t, rhs.t} THEN BoolOther
  ELSE Bool(rhs # lhs)

\* the match on op that ends proc_operator
ApplyOperator(op, lhs, rhs) ==
  CASE op = "Div" -> Ok(div(lhs, rhs))
    [] op = "Times" -> Ok(mul(lhs, rhs))
    [] op = "Plus" -> Ok(add(lhs, rhs))
    [] op = "Minus" -> Ok(sub(lhs, rhs))
    [] op = "Modulo" -> Ok(modulo(lhs, rhs))
    [] op = "Equal" -> Ok(eq(lhs, rhs))
    [] op = "NotEqual" -> Ok(neq(lhs, rhs))
    [] op = "LessEqual" -> Ok(leq(lhs, rhs))
    [] op = "Less" -> Ok(le(lhs, rhs))
    [] op = "Greater" -> Ok(ge(lhs, rhs))
    [] op = "GreaterEqual" -> Ok(ge(lhs, rhs))
    [] OTHER -> Err(ErrInvalidOperator)

proc_fun_def(val) ==
  IF \A i \in 1..Len(val.children[1].children) :
       val.children[1].children[i].type = "NodeIdentifier"
  THEN Ok(FuncValue)
  ELSE Err(ErrInvalidArgument)

RECURSIVE process_inner_block(_, _)
RECURSIVE proc_operator(_, _, _)

\* one operand of proc_operator
Operand(sc, n) ==
  CASE n.type = "Block" -> process_inner_block(sc, n)
    [] n.type = "NodeNumber" -> Ok(Number(n.n))
    [] n.type = "NodeStr" -> Ok(String(n.s))
    [] n.type = "NodeBool" -> Ok(Bool(n.n = 1))
    [] n.type = "None" -> Ok(Nil)
    [] n.type = "NodeIdentifier" ->
         IF get_value(sc, n.s).some THEN Ok(get_value(sc, n.s).val)
         ELSE Err(ErrUndefinedVariable)
    [] OTHER -> Err(ErrInvalidElement)

proc_operator(sc, op, val) ==
  LET operator_character == val.children[1]
      lhs == Operand(sc, operator_character.children[1])
  IN IF lhs.err # "" THEN lhs
     ELSE LET rhs == Operand(sc, operator_character.children[2])
          IN IF rhs.err # "" THEN rhs ELSE ApplyOperator(op, lhs.val, rhs.val)

\* a first child that is a Block makes the function call itself with the
\* same argument, without end
process_inner_block(sc, val) ==
  IF Len(val.children) < 1 THEN Ok(Nil)
  ELSE CASE val.children[1].type = "Func" -> proc_fun_def(val.children[1])
         [] val.children[1].type = "Operator" -> proc_operator(sc, val.children[1].s, val)
         [] val.children[1].type = "Block" -> Err(AbortStackOverflow)
         [] OTHER -> Ok(Nil)

proc_value(sc, val) ==
  CASE val.type = "NodeNumber" -> Ok(Number(val.n))
    [] val.type = "NodeStr" -> Ok(String(val.s))
    [] val.type = "NodeBool" -> Ok(Bool(val.n = 1))
    [] val.type = "Block" -> process_inner_block(sc, val)
    [] val.type = "NodeIdentifier" ->
         IF get_value(sc, val.s).some THEN Ok(get_value(sc, val.s).val)
         ELSE Err(ErrUndefinedVariable)
    [] OTHER -> Ok(Nil)

\* Result<(), String> of var_edit and var_def with the scopes they leave
Done(sc, e) == [scopes |-> sc, err |-> e]

\* mutant of var_edit: the constant flag is not looked at
var_edit_no_const(sc, name, new_val) ==
  IF Len(sc) = 0 THEN Done(sc, ErrNoScopes)
  ELSE LET scope == sc[Len(sc)] IN
    IF name.type # "NodeIdentifier" THEN Done(sc, ErrEditIdentifier)
    ELSE IF ~is_defined(scope, name.s) THEN Done(sc, ErrRedefineUndefined)
    ELSE LET new_val_valued == proc_value(sc, new_val) IN
      IF new_val_valued.err # "" THEN Done(sc, new_val_valued.err)
      ELSE Done([sc EXCEPT ![Len(sc)][name.s] = Binding(new_val_valued.val, FALSE)], "")

\* mutant of var_edit: the name is resolved through the chain, and the
\* innermost scope that binds it is the one edited
var_edit_chain(sc, name, new_val) ==
  IF Len(sc) = 0 THEN Done(sc, ErrNoScopes)
  ELSE IF name.type # "NodeIdentifier" THEN Done(sc, ErrEditIdentifier)
  ELSE IF Defining(sc, name.s) = {} THEN Done(sc, ErrRedefineUndefined)
  ELSE LET i == CHOOSE k \in Defining(sc, name.s) : \A j \in Defining(sc, name.s) : j <= k IN
    IF sc[i][name.s].c THEN Done(sc, ErrRedefineConstant)
    ELSE LET new_val_valued == proc_value(sc, new_val) IN
      IF new_val_valued.err # "" THEN Done(sc, new_val_valued.err)
      ELSE Done([sc EXCEPT ![i][name.s] = Binding(new_val_valued.val, FALSE)], "")

var_edit(sc, name, new_val) ==
  IF Len(sc) = 0 THEN Done(sc, ErrNoScopes)
  ELSE LET scope == sc[Len(sc)] IN
    IF name.type # "NodeIdentifier" THEN Done(sc, ErrEditIdentifier)
    ELSE IF ~is_defined(scope, name.s) THEN Done(sc, ErrRedefineUndefined)
    ELSE IF scope[name.s].c THEN Done(sc, ErrRedefineConstant)
    ELSE LET new_val_valued == proc_value(sc, new_val) IN
      IF new_val_valued.err # "" THEN Done(sc, new_val_valued.err)
      ELSE Done([sc EXCEPT ![Len(sc)][name.s] = Binding(new_val_valued.val, FALSE)], "")

\* mutant of var_def: the binding goes into the first scope of the stack
var_def_outermost(sc, is_const, name, value) ==
  IF Len(sc) = 0 THEN Done(sc, ErrNoScopes)
  ELSE LET scope == sc[Len(sc)] IN
    IF name.type # "NodeIdentifier" THEN Done(sc, ErrDefIdentifier)
    ELSE IF is_defined(scope, name.s) THEN Done(sc, ErrAlreadyPresent)
    ELSE LET v == proc_value(sc, value) IN
      IF v.err # "" THEN Done(sc, v.err)
      ELSE Done([sc EXCEPT ![1] = (name.s :> Binding(v.val, is_const)) @@ sc[1]], "")

\* mutant of var_def: a name bound anywhere in the chain cannot be declared
var_def_chain(sc, is_const, name, value) ==
  IF Len(sc) = 0 THEN Done(sc, ErrNoScopes)
  ELSE LET scope == sc[Len(sc)] IN
    IF name.type # "NodeIdentifier" THEN Done(sc, ErrDefIdentifier)
    ELSE IF Defining(sc, name.s) # {} THEN Done(sc, ErrAlreadyPresent)
    ELSE LET v == proc_value(sc, value) IN
      IF v.err # "" THEN Done(sc, v.err)
      ELSE Done([sc EXCEPT ![Len(sc)] = (name.s :> Binding(v.val, is_const)) @@ scope], "")

var_def(sc, is_const, name, value) ==
  IF Len(sc) = 0 THEN Done(sc, ErrNoScopes)
  ELSE LET scope == sc[Len(sc)] IN
    IF name.type # "NodeIdentifier" THEN Done(sc, ErrDefIdentifier)
    ELSE IF is_defined(scope, name.s) THEN Done(sc, ErrAlreadyPresent)
    ELSE LET v == proc_value(sc, value) IN
      IF v.err # "" THEN Done(sc, v.err)
      ELSE Done([sc EXCEPT ![Len(sc)] = (name.s :> Binding(v.val, is_const)) @@ scope], "")

(***************************************************************************)
(* process_node and run, one step per instruction.  A frame of stack is    *)
(* one active call of process_node: its node and the index of the          *)
(* instruction its for loop is at.                                         *)
(***************************************************************************)
Frame(node, i) == [node |-> node, i |-> i]
Top == stack[Len(stack)]
Running == result = "running" /\ Len(stack) > 0
\* the loop of the top call has an instruction left
HasInstruction == Running /\ Top.i <= Len(Top.node.children)
instruction == Top.node.children[Top.i]

\* the call of the top frame's instruction: a new frame
Call(st, node) == Append(st, Frame(node, 1))
\* the for loop of the top frame goes to its next instruction
Advance(st) == [st EXCEPT ![Len(st)].i = @ + 1]

\* mutant of Propagate: the error of a recursive call is dropped by the
\* caller, whose loop goes on with its next instruction
Propagate_dropped(st, e) ==
  IF Len(st) > 1
  THEN [stack |-> Advance(SubSeq(st, 1, Len(st) - 1)), result |-> "running"]
  ELSE [stack |-> <<>>, result |-> e]

\* the ? operator and the return Err(..) of process_node: the error goes up
\* through every active call at once, and run returns it
Propagate(st, e) == [stack |-> <<>>, result |-> e]

\* instruction.get_type() == NodeType::Scope: add_scope, then the recursive call
ScopeInstruction ==
  /\ HasInstruction
  /\ instruction.type = "Scope"
  /\ scopes' = add_scope(scopes)
  /\ stack' = Call(stack, instruction)
  /\ UNCHANGED <<ast, result>>

\* instruction.get_type() == NodeType::Block: the recursive call in the
\* current scope, or the error when there is none
BlockInstruction ==
  /\ HasInstruction
  /\ instruction.type = "Block"
  /\ IF Len(scopes) = 0
     THEN /\ stack' = Propagate(stack, ErrNoScopes).stack
          /\ result' = Propagate(stack, ErrNoScopes).result
     ELSE /\ stack' = Call(stack, instruction)
          /\ result' = result
  /\ UNCHANGED <<ast, scopes>>

\* what the else branch does with an Assignement: var_edit for Set, var_def
\* for Let and Const
Assign(sc, instr) ==
  IF instr.s = "Set"
  THEN var_edit(sc, instr.children[1], instr.children[2])
  ELSE var_def(sc, instr.s = "Const", instr.children[1], instr.children[2])

\* the else branch on an Assignement
AssignementInstruction ==
  /\ HasInstruction
  /\ instruction.type = "Assignement"
  /\ LET r == IF Len(scopes) = 0 THEN Done(scopes, ErrNoScopes)
              ELSE Assign(scopes, instruction)
     IN /\ scopes' = r.scopes
        /\ IF r.err # ""
           THEN /\ stack' = Propagate(stack, r.err).stack
                /\ result' = Propagate(stack, r.err).result
           ELSE /\ stack' = Advance(stack)
                /\ result' = result
  /\ UNCHANGED ast

\* the else branch on any other node: nothing but the check for a scope
OtherInstruction ==
  /\ HasInstruction
  /\ instruction.type \notin {"Scope", "Block", "Assignement"}
  /\ IF Len(scopes) = 0
     THEN /\ stack' = Propagate(stack, ErrNoScopes).stack
          /\ result' = Propagate(stack, ErrNoScopes).result
     ELSE /\ stack' = Advance(stack)
          /\ result' = result
  /\ UNCHANGED <<ast, scopes>>

\* the scopes after a call of process_node on a child returned Ok to the
\* frame that made it: remove_scope when the child is a Scope
AfterCall(sc, caller) ==
  IF caller.node.children[caller.i].type = "Scope" THEN remove_scope(sc) ELSE sc

\* the for loop of the top call is over: Ok(()) to its caller, which goes on
\* after the call; run returns Ok when the call is the first
Return ==
  /\ Running
  /\ Top.i > Len(Top.node.children)
  /\ IF Len(stack) = 1
     THEN /\ stack' = <<>>
          /\ result' = "ok"
          /\ scopes' = scopes
     ELSE /\ scopes' = AfterCall(scopes, stack[Len(stack) - 1])
          /\ stack' = Advance(SubSeq(stack, 1, Len(stack) - 1))
          /\ result' = result
  /\ UNCHANGED ast

(***************************************************************************)
(* The trees run is given.  Names and numbers are few; the shapes are a    *)
(* Scope holding a statement, a Scope or Block and a statement after it,   *)
(* the same with two statements in the inner node, and a Scope with a      *)
(* Scope or Block after it.                                                *)
(***************************************************************************)
Names == {"x", "y"}
Nums == 1..MaxNum
AssignTypes == {"Let", "Const", "Set"}

ValueNodes == {NodeNumber(n) : n \in Nums} \cup {NodeIdentifier("x")}

Statements ==
  {Assignement(a, NodeIdentifier(name), v) : a \in AssignTypes, name \in Names, v \in ValueNodes}

Wrap(w, children) == IF w = "Scope" THEN Scope(children) ELSE Block(children)
Wrappers == {"Scope", "Block"}

Nested(w, s1, s2, s3) == Block(<<Scope(<<s1, Wrap(w, <<s2>>), s3>>)>>)

NestedTwo(w, s1, s2, s3) == Block(<<Scope(<<s1, Wrap(w, <<s2, s3>>)>>)>>)

Siblings(w, s1, s2) == Block(<<Scope(<<s1>>), Wrap(w, <<s2>>)>>)

\* no Scope around the statement: run has no scope when it reaches it
Unscoped(w, s1) == IF w = "Scope" THEN Block(<<s1>>) ELSE Block(<<Block(<<s1>>)>>)

\* the scenarios the specification names, and the node kinds the shapes lack
ScenarioLookup ==
  Block(<<Scope(<<Assignement("Let", NodeIdentifier("x"), NodeNumber(5)),
                  Assignement("Let", NodeIdentifier("y"), NodeIdentifier("x")),
                  Scope(<<Assignement("Let", NodeIdentifier("z"), NodeIdentifier("x"))>>)>>),
          Scope(<<Assignement("Let", NodeIdentifier("w"), NodeIdentifier("x"))>>)>>)

ScenarioConst ==
  Block(<<Scope(<<Assignement("Const", NodeIdentifier("x"), NodeNumber(1)),
                  Assignement("Set", NodeIdentifier("x"), NodeNumber(2))>>)>>)

ScenarioShadow ==
  Block(<<Scope(<<Assignement("Let", NodeIdentifier("a"), NodeNumber(3)),
                  Scope(<<Assignement("Let", NodeIdentifier("a"), NodeNumber(4)),
                          Assignement("Set", NodeIdentifier("a"), NodeNumber(5))>>)>>)>>)

ScenarioValues ==
  Block(<<Scope(<<NodeNone,
                  NodeIdentifier("x"),
                  Assignement("Let", NodeIdentifier("n"), NodeNone),
                  Assignement("Let", NodeIdentifier("b"), NodeBool(TRUE)),
                  Assignement("Let", NodeIdentifier("s"), NodeStr("s")),
                  Assignement("Let", NodeIdentifier("e"), Block(<<>>)),
                  Assignement("Let", NodeIdentifier("p"),
                              Block(<<Operator("Plus", NodeNumber(1), NodeIdentifier("b"))>>)),
                  Assignement("Set", NodeIdentifier("n"),
                              Block(<<Operator("Plus", NodeNumber(1), NodeNumber(2))>>)),
                  Assignement("Let", NodeNumber(1), NodeNumber(1))>>)>>)

Scenarios == {ScenarioLookup, ScenarioConst, ScenarioShadow, ScenarioValues}

\* a declaration whose value is the block of an ordering over two operands
Orderings == {"Less", "LessEqual", "Greater", "GreaterEqual"}
OrderOperands == {NodeNumber(n) : n \in Nums} \cup {NodeBool(TRUE), NodeStr("s"), NodeNone}
Compare(op, a, b) ==
  Block(<<Scope(<<Assignement("Let", NodeIdentifier("r"), Block(<<Operator(op, a, b)>>))>>)>>)

\* a declaration or a reassignment whose value is a block in a block:
\* ((+ 1 2)), after the declaration of the name that is reassigned
BlockInBlock == Block(<<Block(<<Operator("Plus", NodeNumber(1), NodeNumber(2))>>)>>)
ValueInBlocks(a) ==
  Block(<<Scope(<<Assignement("Let", NodeIdentifier("x"), NodeNumber(1)),
                  Assignement(a, NodeIdentifier(IF a = "Set" THEN "x" ELSE "y"), BlockInBlock)>>)>>)

\* tree is one of the trees run is given
Programs(tree) ==
  \/ \E w \in Wrappers, s1 \in Statements, s2 \in Statements, s3 \in Statements :
       tree \in {Nested(w, s1, s2, s3), NestedTwo(w, s1, s2, s3), Siblings(w, s1, s2), Unscoped(w, s1)}
  \/ tree \in Scenarios
  \/ \E op \in Orderings, a \in OrderOperands, b \in OrderOperands : tree = Compare(op, a, b)
  \/ \E a \in AssignTypes : tree = ValueInBlocks(a)

LexerIdle ==
  /\ source = <<>>
  /\ tokens = <<>>
  /\ start = 0
  /\ current = 0
  /\ line = 1
  /\ errors = <<>>
  /\ lpc = "idle"

ParserIdle ==
  /\ parser = [tokens |-> <<>>, ast |-> Block(<<>>), current |-> 0, had_error |-> FALSE,
               errors |-> <<>>, line |-> 1]
  /\ ppc = "idle"

\* run: the interpreter with no scope, and the first call of process_node
Init ==
  /\ Programs(ast)
  /\ scopes = <<>>
  /\ stack = <<Frame(ast, 1)>>
  /\ result = "running"
  /\ LexerIdle
  /\ ParserIdle

Next ==
  \/ ScopeInstruction /\ UNCHANGED <<lexVars, parseVars>>
  \/ BlockInstruction /\ UNCHANGED <<lexVars, parseVars>>
  \/ AssignementInstruction /\ UNCHANGED <<lexVars, parseVars>>
  \/ OtherInstruction /\ UNCHANGED <<lexVars, parseVars>>
  \/ Return /\ UNCHANGED <<lexVars, parseVars>>

Spec == Init /\ [][Next]_vars

(***************************************************************************)
(* Lexer: src/core/lexer.rs.  The source is a sequence of characters, each *)
(* a one-character string of one byte, so that the index of a character    *)
(* and the index of its byte are the same.  start and current count from 0 *)
(* as in the source; a lexer is the record of the struct's fields, with    *)
(* panic set once an index has left the source.                            *)
(***************************************************************************)
NUL == "\\0"
Digits == {"0", "1", "2", "3", "4", "5", "6", "7", "8", "9"}
Letters ==
  {"a", "b", "c", "d", "e", "f", "g", "h", "i", "j", "k", "l", "m", "n", "o", "p", "q",
   "r", "s", "t", "u", "v", "w", "x", "y", "z"}

is_digit(c) == c \in Digits
is_identifier_allowed(c) == c \in Letters \/ c \in Digits \/ c = "_" \/ c = ":"

\* Lexer::new: the keyword table
keywords ==
  (<<"f", "u", "n", "c">> :> "Func") @@ (<<"i", "f">> :> "If") @@ (<<"n", "i", "l">> :> "Nil") @@
  (<<"o", "r">> :> "Or") @@ (<<"r", "e", "t">> :> "Return") @@ (<<"t", "r", "u", "e">> :> "True") @@
  (<<"f", "a", "l", "s", "e">> :> "False") @@ (<<"w", "h", "i", "l", "e">> :> "While") @@
  (<<"l", "e", "t">> :> "Let") @@ (<<"c", "o", "n", "s", "t">> :> "Const") @@
  (<<"s", "e", "t">> :> "Set") @@ (<<"a", "n", "d">> :> "And")

\* the f32 of a Number token: sign, whole part and the digits of the fraction
NoNumber == [neg |-> FALSE, whole |-> 0, frac |-> <<>>]

DigitValue(c) ==
  CASE c = "0" -> 0 [] c = "1" -> 1 [] c = "2" -> 2 [] c = "3" -> 3 [] c = "4" -> 4
    [] c = "5" -> 5 [] c = "6" -> 6 [] c = "7" -> 7 [] c = "8" -> 8 [] c = "9" -> 9

RECURSIVE Whole(_)
Whole(digits) ==
  IF digits = <<>> THEN 0
  ELSE 10 * Whole(SubSeq(digits, 1, Len(digits) - 1)) + DigitValue(digits[Len(digits)])

\* text.parse::<f32>().unwrap_or(-1.) on [-]digits[.digits]
ParseF32(text) ==
  LET neg == text # <<>> /\ text[1] = "-"
      body == IF neg THEN SubSeq(text, 2, Len(text)) ELSE text
      dots == {i \in 1..Len(body) : body[i] = "."}
      dot == IF dots = {} THEN Len(body) + 1 ELSE CHOOSE i \in dots : \A j \in dots : i <= j
      whole == SubSeq(body, 1, dot - 1)
      frac == SubSeq(body, dot + 1, Len(body))
  IN IF /\ whole # <<>>
        /\ \A i \in 1..Len(whole) : is_digit(whole[i])
        /\ \A i \in 1..Len(frac) : is_digit(frac[i])
        /\ Cardinality(dots) <= 1
     THEN [neg |-> neg, whole |-> Whole(whole), frac |-> [i \in 1..Len(frac) |-> DigitValue(frac[i])]]
     ELSE [neg |-> TRUE, whole |-> 1, frac |-> <<>>]

\* Token::new(typ, text, line); s is the payload of Identifier and Str, num of Number
Token(typ, s, num, text, ln) == [typ |-> typ, s |-> s, num |-> num, text |-> text, line |-> ln]

is_at_end(lx) == lx.current >= Len(lx.source)

peek(lx) == IF is_at_end(lx) THEN NUL ELSE lx.source[lx.current + 1]

peek_next(lx) == IF lx.current + 1 >= Len(lx.source) THEN NUL ELSE lx.source[lx.current + 2]

\* advance: current += 1, then the character before it, which panics when
\* there is none
advance(lx) ==
  [lx EXCEPT !.current = @ + 1, !.panic = @ \/ lx.current + 1 > Len(lx.source)]

match_(lx, expected) ==
  IF is_at_end(lx) THEN [lx |-> lx, matched |-> FALSE]
  ELSE IF lx.source[lx.current + 1] # expected THEN [lx |-> lx, matched |-> FALSE]
  ELSE [lx |-> [lx EXCEPT !.current = @ + 1], matched |-> TRUE]

\* source[start..current]
Text(lx) == SubSeq(lx.source, lx.start + 1, lx.current)

add_token(lx, typ, s, num) ==
  [lx EXCEPT !.tokens = Append(@, Token(typ, s, num, Text(lx), lx.line))]

Plain(lx, typ) == add_token(lx, typ, <<>>, NoNumber)

RECURSIVE WhileDigit(_)
WhileDigit(lx) == IF is_digit(peek(lx)) THEN WhileDigit(advance(lx)) ELSE lx

number(lx) ==
  LET whole == WhileDigit(lx)
      all == IF peek(whole) = "." /\ is_digit(peek_next(whole))
             THEN WhileDigit(advance(whole))
             ELSE whole
  IN add_token(all, "Number", <<>>, ParseF32(Text(all)))

RECURSIVE WhileIdentifier(_)
WhileIdentifier(lx) ==
  IF is_identifier_allowed(peek(lx)) THEN WhileIdentifier(advance(lx)) ELSE lx

is_keyword(word) ==
  IF word \notin DOMAIN keywords THEN [some |-> FALSE, typ |-> ""]
  ELSE [some |-> TRUE, typ |-> keywords[word]]

identifier(lx) ==
  LET all == WhileIdentifier(lx)
      text == Text(all)
  IN IF ~is_keyword(text).some THEN add_token(all, "Identifier", text, NoNumber)
     ELSE Plain(all, is_keyword(text).typ)

\* the loop of string: up to the delimiter or the end, counting the lines
RECURSIVE WhileString(_, _)
WhileString(lx, delimiter) ==
  IF peek(lx) # delimiter /\ ~is_at_end(lx)
  THEN WhileString(advance([lx EXCEPT !.line = IF peek(lx) = "\n" THEN @ + 1 ELSE @]), delimiter)
  ELSE lx

\* the messages pushed on errors: "{line} | Unterminated string" and
\* "{line} | Unexpected character: {c}"
Unterminated(ln) == [line |-> ln, msg |-> "Unterminated string", c |-> ""]
Unexpected(ln, c) == [line |-> ln, msg |-> "Unexpected character", c |-> c]

\* mutant of string: the end of the source is tested after the closing
\* character is consumed
string_end_after(lx, delimiter) ==
  LET body == WhileString(lx, delimiter) IN
  IF is_at_end(body) \/ is_at_end(advance(body))
  THEN [body EXCEPT !.errors = Append(@, Unterminated(body.line))]
  ELSE LET closed == advance(body)
           value == SubSeq(closed.source, closed.start + 2, closed.current - 1)
       IN add_token(closed, "Str", value, NoNumber)

\* mutant of string: a literal that reaches the end of the source becomes a
\* token of what was read
string_to_end(lx, delimiter) ==
  LET body == WhileString(lx, delimiter) IN
  IF is_at_end(body)
  THEN add_token(body, "Str", SubSeq(body.source, body.start + 2, body.current), NoNumber)
  ELSE LET closed == advance(body)
           value == SubSeq(closed.source, closed.start + 2, closed.current - 1)
       IN add_token(closed, "Str", value, NoNumber)

string(lx, delimiter) ==
  LET body == WhileString(lx, delimiter) IN
  IF is_at_end(body)
  THEN [body EXCEPT !.errors = Append(@, Unterminated(body.line))]
  ELSE LET closed == advance(body)
           value == SubSeq(closed.source, closed.start + 2, closed.current - 1)
       IN add_token(closed, "Str", value, NoNumber)

\* the loop of multi_line_comment
RECURSIVE WhileComment(_)
WhileComment(lx) ==
  IF peek(lx) # "%" /\ peek_next(lx) # "%" /\ ~is_at_end(lx)
  THEN WhileComment(advance([lx EXCEPT !.line = IF peek(lx) = "\n" THEN @ + 1 ELSE @]))
  ELSE lx

\* the two advance() that follow the loop come with no test for the end
multi_line_comment(lx) ==
  LET body == WhileComment(lx)
      first == advance(body)
  IN IF first.panic THEN first ELSE advance(first)

\* the loop of the # branch of scan_token
RECURSIVE WhileLine(_)
WhileLine(lx) ==
  IF peek(lx) # "\n" /\ ~is_at_end(lx) THEN WhileLine(advance(lx)) ELSE lx

\* scan_token after let c = self.advance()
ScanChar(lx, c) ==
  CASE c = "{" -> Plain(lx, "LeftBrace")
    [] c = "}" -> Plain(lx, "RightBrace")
    [] c = "(" -> Plain(lx, "LeftParen")
    [] c = ")" -> Plain(lx, "RightParen")
    [] c = "," -> Plain(lx, "Comma")
    [] c = "." -> Plain(lx, "Dot")
    [] c = "-" -> IF is_digit(peek(lx)) THEN number(lx) ELSE Plain(lx, "Minus")
    [] c = "+" -> Plain(lx, "Plus")
    [] c = "*" -> Plain(lx, "Star")
    [] c = "/" -> Plain(lx, "Slash")
    [] c = "~" -> Plain(lx, "Tilde")
    [] c = "=" -> Plain(lx, "Equal")
    [] c = "<" -> IF match_(lx, "=").matched THEN Plain(match_(lx, "=").lx, "LessEqual")
                  ELSE Plain(lx, "Less")
    [] c = ">" -> IF match_(lx, "=").matched THEN Plain(match_(lx, "=").lx, "GreaterEqual")
                  ELSE Plain(lx, "Greater")
    [] c = "#" -> WhileLine(lx)
    [] c = "%" -> IF match_(lx, "%").matched THEN multi_line_comment(match_(lx, "%").lx)
                  ELSE Plain(lx, "Percent")
    [] c \in {" ", "\r", "\t"} -> lx
    [] c = "\"" -> string(lx, "\"")
    [] c = "'" -> string(lx, "'")
    [] c = "\n" -> [lx EXCEPT !.line = @ + 1]
    [] OTHER -> IF is_digit(c) THEN number(lx)
                ELSE IF is_identifier_allowed(c) THEN identifier(lx)
                ELSE [lx EXCEPT !.errors = Append(@, Unexpected(lx.line, c))]

scan_token(lx) == ScanChar(advance(lx), lx.source[lx.current + 1])

\* the lexer of the variables
Lexer ==
  [source |-> source, tokens |-> tokens, start |-> start, current |-> current,
   line |-> line, errors |-> errors, panic |-> FALSE]

\* one turn of the loop of scan_tokens: start = current, then scan_token
ScanToken ==
  /\ lpc = "scan"
  /\ ~is_at_end(Lexer)
  /\ LET lx == scan_token([Lexer EXCEPT !.start = Lexer.current])
     IN /\ tokens' = lx.tokens
        /\ start' = lx.start
        /\ current' = lx.current
        /\ line' = lx.line
        /\ errors' = lx.errors
        /\ lpc' = IF lx.panic THEN "panic" ELSE "scan"
  /\ UNCHANGED source

\* the end of scan_tokens: the Eof token, and the tokens are returned
ScanEof ==
  /\ lpc = "scan"
  /\ is_at_end(Lexer)
  /\ tokens' = Append(tokens, Token("Eof", <<>>, NoNumber, <<>>, line))
  /\ lpc' = "done"
  /\ UNCHANGED <<source, start, current, line, errors>>

\* the characters of the sources: one or two of each kind the lexer tells apart
Alphabet == {"(", "-", "<", "=", "1", ".", "a", "i", "f", " ", "\n", "\"", "'", "%", "#", "@"}
Sources == UNION {[1..n -> Alphabet] : n \in 0..MaxSrcLen}

\* the sources that open with a block comment: %%, a body free of %, %%, and
\* what comes after the comment
BodyChars == {"a", " ", "\n"}
Bodies == UNION {[1..n -> BodyChars] : n \in 0..MaxBody}
Tails == {<<>>, <<"1">>, <<"\n", "a">>}
BlockComment(body, tail) == <<"%", "%">> \o body \o <<"%", "%">> \o tail
CommentSources == {BlockComment(body, tail) : body \in Bodies, tail \in Tails}

EvaluatorIdle ==
  /\ ast = Block(<<>>)
  /\ scopes = <<>>
  /\ stack = <<>>
  /\ result = "idle"

\* Lexer::new(source), and scan_tokens is called
InitLexer ==
  /\ source \in Sources \cup CommentSources
  /\ tokens = <<>>
  /\ start = 0
  /\ current = 0
  /\ line = 1
  /\ errors = <<>>
  /\ lpc = "scan"
  /\ EvaluatorIdle
  /\ ParserIdle

NextLexer ==
  \/ ScanToken /\ UNCHANGED <<evalVars, parseVars>>
  \/ ScanEof /\ UNCHANGED <<evalVars, parseVars>>

SpecLexer == InitLexer /\ [][NextLexer]_vars

(***************************************************************************)
(* Parser: src/core/parser.rs.  A parser is the record of the struct's     *)
(* fields, with panic set once the process has aborted; current counts     *)
(* from 0.  The procedures return the parser they leave and their node.    *)
(***************************************************************************)
Check(kind, lhs, rhs) == Node("Check", kind, 0, <<lhs, rhs>>)
Condition(check, then, else) == Node("Condition", "", 0, <<check, then, else>>)
\* NodeNumber(f) of a Number token: the node holds the token's f32
NodeNumberOf(tok) == Node("NodeNumber", "", tok.num, <<>>)

Parsed(ps, node) == [ps |-> ps, node |-> node]

Parser_is_at_end(ps) ==
  IF ps.current >= Len(ps.tokens) THEN TRUE ELSE ps.tokens[ps.current + 1].typ = "Eof"

\* peek: None at the end, else the token at current
Parser_peek(ps) ==
  IF Parser_is_at_end(ps) THEN [some |-> FALSE, typ |-> ""]
  ELSE [some |-> TRUE, typ |-> ps.tokens[ps.current + 1].typ]

\* advance: current += 1, then tokens[current - 1], which panics when the
\* index is past the last token
Parser_advance(ps) ==
  [ps EXCEPT !.current = @ + 1, !.panic = @ \/ ps.current + 1 > Len(ps.tokens)]

\* the token advance has returned
Taken(ps) == ps.tokens[ps.current]

\* had_error = true and the "{line} | Invalid token: {token}" message
Invalid(ps, tok) ==
  [ps EXCEPT !.had_error = TRUE,
             !.errors = Append(@, [line |-> ps.line, msg |-> "Invalid token", typ |-> tok.typ])]

\* unimplemented!() and todo!()
Abort(ps) == [ps EXCEPT !.panic = TRUE]

OperatorOf(typ) ==
  CASE typ = "Plus" -> "Plus" [] typ = "Minus" -> "Minus" [] typ = "Star" -> "Times"
    [] OTHER -> "Div"

CheckOf(typ) ==
  CASE typ = "Less" -> "Less" [] typ = "LessEqual" -> "LessEqual" [] typ = "Greater" -> "Greater"
    [] typ = "GreaterEqual" -> "GreaterEqual" [] typ = "Equal" -> "Equal"
    [] typ = "Tilde" -> "NotEqual" [] typ = "And" -> "And" [] OTHER -> "Or"

AssignOf(typ) ==
  CASE typ = "Const" -> "Const" [] typ = "Set" -> "Set" [] OTHER -> "Let"

RECURSIVE parse_block(_)
RECURSIVE BlockLoop(_, _)
RECURSIVE parse_verif(_, _)
RECURSIVE parse_condition(_)
RECURSIVE parse_op(_, _)
RECURSIVE parse_assignement(_, _)

\* one operand of parse_op, from the token advance has returned
OpOperand(ps) ==
  LET tok == Taken(ps) IN
  CASE tok.typ = "LeftParen" -> parse_block(ps)
    [] tok.typ = "Number" -> Parsed(ps, NodeNumberOf(tok))
    [] tok.typ = "Str" -> Parsed(ps, NodeStr(tok.s))
    [] OTHER -> Parsed(Invalid(ps, tok), NodeNone)

parse_op(ps, typ) ==
  LET a1 == Parser_advance(ps) IN
  IF a1.panic THEN Parsed(a1, NodeNone) ELSE
  LET first == OpOperand(a1) IN
  IF first.ps.panic THEN first ELSE
  LET a2 == Parser_advance(first.ps) IN
  IF a2.panic THEN Parsed(a2, NodeNone) ELSE
  LET second == OpOperand(a2) IN
  IF second.ps.panic THEN second
  ELSE Parsed(second.ps, Operator(OperatorOf(typ), first.node, second.node))

\* mutant of VerifOperand: an Identifier token is an operand, as it is a
\* value in parse_assignement
VerifOperand_identifier(ps) ==
  LET tok == Taken(ps) IN
  CASE tok.typ = "LeftParen" -> parse_block(ps)
    [] tok.typ = "Number" -> Parsed(ps, NodeNumberOf(tok))
    [] tok.typ = "Str" -> Parsed(ps, NodeStr(tok.s))
    [] tok.typ \in {"True", "False"} -> Parsed(ps, NodeBool(tok.typ = "True"))
    [] tok.typ = "Func" -> Parsed(Abort(ps), NodeNone)
    [] tok.typ = "Identifier" -> Parsed(ps, NodeIdentifier(tok.s))
    [] OTHER -> Parsed(Invalid(ps, tok), NodeNone)

\* one operand of parse_verif, from the token advance has returned
VerifOperand(ps) ==
  LET tok == Taken(ps) IN
  CASE tok.typ = "LeftParen" -> parse_block(ps)
    [] tok.typ = "Number" -> Parsed(ps, NodeNumberOf(tok))
    [] tok.typ = "Str" -> Parsed(ps, NodeStr(tok.s))
    [] tok.typ \in {"True", "False"} -> Parsed(ps, NodeBool(tok.typ = "True"))
    [] tok.typ = "Func" -> Parsed(Abort(ps), NodeNone)
    [] OTHER -> Parsed(Invalid(ps, tok), NodeNone)

parse_verif(ps, typ) ==
  LET a1 == Parser_advance(ps) IN
  IF a1.panic THEN Parsed(a1, NodeNone) ELSE
  LET lhs == VerifOperand(a1) IN
  IF lhs.ps.panic THEN lhs ELSE
  LET a2 == Parser_advance(lhs.ps) IN
  IF a2.panic THEN Parsed(a2, NodeNone) ELSE
  LET rhs == VerifOperand(a2) IN
  IF rhs.ps.panic THEN rhs
  ELSE Parsed(rhs.ps, Check(CheckOf(typ), lhs.node, rhs.node))

parse_condition(ps) ==
  LET check == parse_block(ps) IN
  IF check.ps.panic THEN check ELSE
  LET a1 == Parser_advance(check.ps) IN
  IF a1.panic THEN Parsed(a1, NodeNone) ELSE
  LET todo_if == IF Taken(a1).typ = "LeftParen" THEN parse_block(a1)
                 ELSE Parsed([a1 EXCEPT !.had_error = TRUE,
                                        !.errors = Append(@, [line |-> a1.line,
                                                              msg |-> "Invalid character",
                                                              typ |-> Taken(a1).typ])],
                             NodeNone) IN
  IF todo_if.ps.panic THEN todo_if ELSE
  LET a2 == Parser_advance(todo_if.ps) IN
  IF a2.panic THEN Parsed(a2, NodeNone) ELSE
  LET todo_else == IF Taken(a2).typ = "LeftParen" THEN parse_block(a2)
                   ELSE Parsed(a2, NodeNone) IN
  IF todo_else.ps.panic THEN todo_else
  ELSE Parsed(todo_else.ps, Condition(check.node, todo_if.node, todo_else.node))

parse_assignement(ps, typ) ==
  LET a1 == Parser_advance(ps) IN
  IF a1.panic THEN Parsed(a1, NodeNone) ELSE
  LET name_tok == Taken(a1) IN
  IF name_tok.typ # "Identifier" THEN Parsed(Invalid(a1, name_tok), NodeNone) ELSE
  LET a2 == Parser_advance(a1) IN
  IF a2.panic THEN Parsed(a2, NodeNone) ELSE
  LET value_tok == Taken(a2)
      value ==
        CASE value_tok.typ = "Number" -> Parsed(a2, NodeNumberOf(value_tok))
          [] value_tok.typ = "Str" -> Parsed(a2, NodeStr(value_tok.s))
          [] value_tok.typ = "Identifier" -> Parsed(a2, NodeIdentifier(value_tok.s))
          [] value_tok.typ = "True" -> Parsed(a2, NodeBool(TRUE))
          [] value_tok.typ = "False" -> Parsed(a2, NodeBool(FALSE))
          [] value_tok.typ \in {"Plus", "Minus", "Star", "Slash"} -> parse_op(a2, value_tok.typ)
          [] value_tok.typ = "LeftParen" -> parse_block(a2)
          [] OTHER -> Parsed(Invalid(a2, value_tok), NodeNone)
      valid == value_tok.typ \in {"Number", "Str", "Identifier", "True", "False", "Plus", "Minus",
                                  "Star", "Slash", "LeftParen"}
  IN IF value.ps.panic \/ ~valid THEN value
     ELSE LET master == Assignement(AssignOf(typ), NodeIdentifier(name_tok.s), value.node)
          IN Parsed([value.ps EXCEPT !.ast = Block(Append(@.children, master))], master)

\* the match of parse_block on the token advance has returned
BlockItem(ps) ==
  LET tok == Taken(ps) IN
  CASE tok.typ = "If" -> parse_condition(ps)
    [] tok.typ = "LeftParen" -> parse_block(ps)
    [] tok.typ \in {"Let", "Const", "Set"} -> parse_assignement(ps, tok.typ)
    [] tok.typ \in {"Plus", "Minus", "Star", "Slash"} -> parse_op(ps, tok.typ)
    [] tok.typ \in {"Less", "LessEqual", "And", "Or", "Tilde", "Equal", "Greater", "GreaterEqual"} ->
         parse_verif(ps, tok.typ)
    [] tok.typ = "Identifier" -> Parsed(ps, NodeIdentifier(tok.s))
    [] OTHER -> Parsed(Invalid(ps, tok), NodeNone)

\* the loop of parse_block, toret holding the children found so far
BlockLoop(ps, toret) ==
  IF Parser_is_at_end(ps) \/ Parser_peek(ps).typ = "RightParen"
  THEN IF Parser_peek(ps).some /\ Parser_peek(ps).typ = "RightParen"
       THEN Parsed(Parser_advance(ps), Block(toret))
       ELSE Parsed(ps, Block(toret))
  ELSE LET to_add == BlockItem(Parser_advance(ps)) IN
       IF to_add.ps.panic THEN to_add
       ELSE BlockLoop(to_add.ps, Append(toret, to_add.node))

parse_block(ps) == BlockLoop(ps, <<>>)

\* parse_token: a ( opens a block, whose node is dropped; any other token is
\* an error
parse_token(ps) ==
  LET a == Parser_advance(ps)
      cur == Taken(a)
      lined == [a EXCEPT !.line = cur.line]
  IN IF a.panic THEN a
     ELSE IF cur.typ = "LeftParen" THEN parse_block(lined).ps
     ELSE Invalid(lined, cur)

\* the parser of the variable
Parser ==
  [tokens |-> parser.tokens, ast |-> parser.ast, current |-> parser.current,
   had_error |-> parser.had_error, errors |-> parser.errors, line |-> parser.line,
   panic |-> FALSE]

Fields(ps) ==
  [tokens |-> ps.tokens, ast |-> ps.ast, current |-> ps.current,
   had_error |-> ps.had_error, errors |-> ps.errors, line |-> ps.line]

\* one turn of the loop of parse
ParseToken ==
  /\ ppc = "parse"
  /\ ~Parser_is_at_end(Parser)
  /\ parser' = Fields(parse_token(Parser))
  /\ ppc' = IF parse_token(Parser).panic THEN "panic" ELSE "parse"

\* the end of parse: the tree is returned
ParseReturn ==
  /\ ppc = "parse"
  /\ Parser_is_at_end(Parser)
  /\ ppc' = "done"
  /\ UNCHANGED parser

\* the tokens handed to the parser: at most MaxTokens of these kinds, on
\* line 1, and the Eof token the lexer ends every sequence with
TokenOf(typ) ==
  CASE typ = "Identifier" -> Token(typ, <<"x">>, NoNumber, <<"x">>, 1)
    [] typ = "Number" -> Token(typ, <<>>, [neg |-> FALSE, whole |-> 1, frac |-> <<>>], <<"1">>, 1)
    [] OTHER -> Token(typ, <<>>, NoNumber, <<>>, 1)

TokenTypes ==
  {"LeftParen", "RightParen", "Plus", "Less", "If", "Let", "Identifier", "Number", "Func", "True"}

TokenSequences ==
  {[i \in 1..(Len(typs) + 1) |-> IF i <= Len(typs) THEN TokenOf(typs[i]) ELSE TokenOf("Eof")] :
     typs \in UNION {[1..n -> TokenTypes] : n \in 0..MaxTokens}}

\* the tokens of ( let x ( op a b ) ): a binary expression that is the value
\* of a declaration, which parse_assignement registers on the tree
WithEof(typs) ==
  [i \in 1..(Len(typs) + 1) |-> IF i <= Len(typs) THEN TokenOf(typs[i]) ELSE TokenOf("Eof")]
OperandTokens(op, a, b) ==
  WithEof(<<"LeftParen", "Let", "Identifier", "LeftParen", op, a, b, "RightParen", "RightParen">>)
BinaryTypes == {"Plus", "Less"}
OperandTypes == {"Identifier", "Number"}
OperandSequences ==
  {OperandTokens(op, a, b) : op \in BinaryTypes, a \in OperandTypes, b \in OperandTypes}

\* Parser::new(tokens), and parse is called
InitParser ==
  /\ \E toks \in TokenSequences \cup OperandSequences :
       parser = [tokens |-> toks, ast |-> Block(<<>>), current |-> 0, had_error |-> FALSE,
                 errors |-> <<>>, line |-> 1]
  /\ ppc = "parse"
  /\ EvaluatorIdle
  /\ LexerIdle

NextParser ==
  \/ ParseToken /\ UNCHANGED <<evalVars, lexVars>>
  \/ ParseReturn /\ UNCHANGED <<evalVars, lexVars>>

SpecParser == InitParser /\ [][NextParser]_vars

(***************************************************************************)
(* Claims about the evaluator, checked under Spec                          *)
(***************************************************************************)
IsError(r) == r \notin {"running", "ok"}
Innermost == scopes[Len(scopes)]
\* the next step is var_edit or var_def on a well-formed Assignement
AtAssignement ==
  /\ HasInstruction
  /\ instruction.type = "Assignement"
  /\ instruction.children[1].type = "NodeIdentifier"
  /\ Len(scopes) > 0
target == instruction.children[1].s
AtDeclaration == AtAssignement /\ instruction.s \in {"Let", "Const"}
AtReassignment == AtAssignement /\ instruction.s = "Set"
\* the scopes below the innermost are what they were
OuterUnchanged ==
  /\ Len(scopes') = Len(scopes)
  /\ \A i \in 1..(Len(scopes) - 1) : scopes'[i] = scopes[i]

\* C1 (as claimed): the mapping a Scope node pushed is popped on every path,
\* also when a child fails.  Every instruction outside a Scope fails for want
\* of a scope, so the outermost Scope node around an error was entered with
\* no scope on the stack: once run has returned an error, the stack is empty.
C1_ScopePoppedOnError == IsError(result) => Len(scopes) = 0

\* a declaration or reassignment that gets to evaluate an identifier as its
\* value reads the innermost scope of the chain that binds the identifier
C2_LookupStep ==
  (/\ AtAssignement
   /\ instruction.children[2].type = "NodeIdentifier"
   /\ \/ instruction.s \in {"Let", "Const"} /\ target \notin DOMAIN Innermost
      \/ instruction.s = "Set" /\ target \in DOMAIN Innermost /\ ~Innermost[target].c)
  => LET n == instruction.children[2].s
         binders == {i \in 1..Len(scopes) : n \in DOMAIN scopes[i]}
     IN IF binders = {}
        THEN result' = ErrUndefinedVariable
        ELSE /\ result' = "running"
             /\ \E i \in binders :
                  /\ \A j \in binders : j <= i
                  /\ scopes'[Len(scopes)][target].val = scopes[i][n].val

\* the states of run on ScenarioLookup
C2_ScenarioLookup ==
  ast = ScenarioLookup =>
    /\ \A i \in 1..Len(scopes) :
         /\ "x" \in DOMAIN scopes[i] => scopes[i]["x"].val = Number(5)
         /\ "y" \in DOMAIN scopes[i] => scopes[i]["y"].val = Number(5)
         /\ "z" \in DOMAIN scopes[i] => scopes[i]["z"].val = Number(5)
         /\ "w" \notin DOMAIN scopes[i]
    /\ result \in {"running", ErrUndefinedVariable}
    /\ result = ErrUndefinedVariable => \A i \in 1..Len(scopes) : "x" \notin DOMAIN scopes[i]

\* C2: an identifier looked up as the value of a declaration or reassignment
\* is the value of the innermost scope of the chain that binds it, and the
\* undefined-variable error when no scope of the chain binds it; in
\* ScenarioLookup, x declared as 5 reads as Number(5) in its own scope (y) and
\* in the scope nested in it (z), and fails once its scope is popped (w).
C2_Lookup == [][C2_LookupStep]_vars /\ []C2_ScenarioLookup

\* C2 witness: in ScenarioLookup the lookup of x after its scope was popped failed
C2_Witness ==
  /\ ast = ScenarioLookup
  /\ result = ErrUndefinedVariable
  /\ scopes = <<EmptyScope>>

\* set of a constant of the innermost mapping
C3_ConstantStep ==
  (AtReassignment /\ target \in DOMAIN Innermost /\ Innermost[target].c)
  => (result' = ErrRedefineConstant /\ scopes' = scopes)

\* C3: set of a name that the innermost mapping binds as a constant fails
\* with the constant error and leaves every mapping of the stack as it was.
C3_ConstantReassign == [][C3_ConstantStep]_vars

\* C3 witness: const x 1 then set x 2 has failed, x is still the constant 1
C3_Witness ==
  /\ ast = ScenarioConst
  /\ result = ErrRedefineConstant
  /\ scopes = <<("x" :> Binding(Number(1), TRUE))>>

\* set of a name the innermost mapping does not bind
C4_ScopeLocalStep ==
  (AtReassignment /\ target \notin DOMAIN Innermost)
  => (result' = ErrRedefineUndefined /\ scopes' = scopes)

\* C4: set of a name that the innermost mapping does not bind fails with the
\* undefined-variable-redefinition error, whether or not an outer mapping
\* binds the name, and leaves every mapping as it was.
C4_ScopeLocalReassign == [][C4_ScopeLocalStep]_vars

\* C4 witness: y is bound in the outer scope only, and set y in the inner
\* scope has failed
C4_Witness ==
  /\ ast = Block(<<Scope(<<Assignement("Let", NodeIdentifier("y"), NodeNumber(1)),
                           Scope(<<Assignement("Set", NodeIdentifier("y"), NodeNumber(2))>>),
                           Assignement("Let", NodeIdentifier("x"), NodeNumber(1))>>)>>)
  /\ result = ErrRedefineUndefined
  /\ scopes = <<("y" :> Binding(Number(1), FALSE)), EmptyScope>>

\* a step of var_def or var_edit, failed or not
C5_FrameStep ==
  (HasInstruction /\ instruction.type = "Assignement") => OuterUnchanged

\* the call at this depth of process_node has run its last instruction
AboutToPop(depth) ==
  /\ Running
  /\ Len(stack) = depth
  /\ Top.i > Len(Top.node.children)

\* the states of run on ScenarioShadow
C5_ScenarioShadow ==
  ast = ScenarioShadow =>
    /\ ~IsError(result)
    /\ AboutToPop(3) =>
         scopes = <<("a" :> Binding(Number(3), FALSE)), ("a" :> Binding(Number(5), FALSE))>>
    /\ AboutToPop(2) => scopes = <<("a" :> Binding(Number(3), FALSE))>>

\* C5: a declaration or reassignment changes the innermost mapping only; in
\* ScenarioShadow the inner a is (Number(5), not constant) when the inner
\* scope is about to be popped, and the outer a is Number(3) then and when
\* the outer scope is about to be popped.
C5_InnermostOnly == [][C5_FrameStep]_vars /\ []C5_ScenarioShadow

\* C5 witness: ScenarioShadow with the inner scope about to be popped
C5_Witness ==
  /\ ast = ScenarioShadow
  /\ AboutToPop(3)
  /\ scopes[2]["a"] = Binding(Number(5), FALSE)
  /\ scopes[1]["a"].val = Number(3)

\* a declaration whose value evaluates
C6_DeclarationStep ==
  (AtDeclaration /\ proc_value(scopes, instruction.children[2]).err = "")
  => IF target \in DOMAIN Innermost
     THEN result' = ErrAlreadyPresent /\ scopes' = scopes
     ELSE /\ result' = "running"
          /\ OuterUnchanged
          /\ DOMAIN scopes'[Len(scopes)] = DOMAIN Innermost \cup {target}
          /\ \A m \in DOMAIN Innermost : scopes'[Len(scopes)][m] = Innermost[m]
          /\ scopes'[Len(scopes)][target] =
               Binding(proc_value(scopes, instruction.children[2]).val, instruction.s = "Const")

\* C6: with a scope on the stack, a declaration of n whose value evaluates
\* succeeds exactly when the innermost mapping does not bind n, whatever the
\* outer mappings bind; it then adds n -> (value, is_const) to the innermost
\* mapping and nothing else; the redefinition error leaves the stack as it was.
C6_Declaration == [][C6_DeclarationStep]_vars

\* C6 witness: x declared in a nested scope while the outer scope binds x
C6_Witness ==
  /\ result = "running"
  /\ Len(scopes) = 2
  /\ "x" \in DOMAIN scopes[1]
  /\ "x" \in DOMAIN scopes[2]
  /\ scopes[2]["x"].c
  /\ scopes[1]["x"].val # scopes[2]["x"].val

\* the error of the instruction the walk is at, "" when it has none
Failure ==
  IF Len(scopes) = 0 /\ instruction.type # "Scope" THEN ErrNoScopes
  ELSE IF instruction.type = "Assignement" THEN Assign(scopes, instruction).err
  ELSE ""

\* the step of an instruction that fails
C10_FailStep ==
  (HasInstruction /\ Failure # "")
  => (result' = Failure /\ stack' = <<>> /\ scopes' = scopes)

\* after an error no call of process_node is active
C10_Stopped == IsError(result) => stack = <<>>

\* C10: the first instruction that fails ends the walk: run returns its
\* error, no call of process_node is left to evaluate an instruction after
\* it, and from then on no scope mapping changes.
C10_FailFast ==
  /\ [][C10_FailStep]_vars
  /\ []C10_Stopped
  /\ [][IsError(result) => UNCHANGED <<scopes, stack, result>>]_vars

\* C10 witness: the first statement of a Scope failed with a Scope and a
\* statement after it, neither of which was evaluated
C10_Witness ==
  /\ ast = Block(<<Scope(<<Assignement("Set", NodeIdentifier("y"), NodeNumber(1)),
                           Scope(<<Assignement("Let", NodeIdentifier("x"), NodeNumber(1))>>),
                           Assignement("Let", NodeIdentifier("x"), NodeNumber(2))>>)>>)
  /\ result = ErrRedefineUndefined
  /\ stack = <<>>
  /\ scopes = <<EmptyScope>>

\* the Value the claim gives the ordering op of the operand nodes a and b
Ordered(op, a, b) ==
  IF a.type # "NodeNumber" \/ b.type # "NodeNumber" THEN Nil
  ELSE CASE op = "Less" -> Bool(a.n < b.n)
         [] op = "LessEqual" -> Bool(a.n <= b.n)
         [] op = "Greater" -> Bool(a.n > b.n)
         [] op = "GreaterEqual" -> Bool(a.n >= b.n)

\* C14 (as claimed): proc_operator on Number operands a (left) and b (right)
\* returns Bool(a < b) for Less, Bool(a <= b) for LessEqual, Bool(a > b) for
\* Greater and Bool(a >= b) for GreaterEqual, and Nil when an operand is not
\* a Number: the value that the declaration (let r (op a b)) binds r to.
C14_Orderings ==
  Len(scopes) = 1 /\ "r" \in DOMAIN scopes[1] =>
    \A op \in Orderings, a \in OrderOperands, b \in OrderOperands :
      ast = Compare(op, a, b) => scopes[1]["r"].val = Ordered(op, a, b)

\* C15 (as claimed): the evaluation of the value of a declaration or of a
\* reassignment returns, whatever the tree: run never ends in the overflow
\* of the stack, and on a value that is a block whose first child is a block,
\* ((+ 1 2)), the statement is evaluated and run returns Ok.
C15_ValueTerminates ==
  /\ result # AbortStackOverflow
  /\ \A a \in AssignTypes : ast = ValueInBlocks(a) /\ stack = <<>> => result = "ok"

(***************************************************************************)
(* Claims about the lexer, checked under SpecLexer                         *)
(***************************************************************************)
Quotes == {"\"", "'"}
\* the characters that are a token or white space on their own
TokenChars == Alphabet \ (Quotes \cup {"#", "@"})

\* The shape of a source read from character i, by the grammar of 4.1 and
\* not by the lexer: valid when it holds only token characters and string
\* literals (no stray character, no comment), closed the number of literals
\* that are closed, open when a last literal has no closing delimiter.
RECURSIVE Shape(_, _, _)
Shape(src, i, n) ==
  IF i > Len(src) THEN [valid |-> TRUE, closed |-> n, open |-> FALSE]
  ELSE IF src[i] \in Quotes
  THEN LET ends == {j \in (i + 1)..Len(src) : src[j] = src[i]} IN
       IF ends = {} THEN [valid |-> TRUE, closed |-> n, open |-> TRUE]
       ELSE Shape(src, (CHOOSE j \in ends : \A k \in ends : j <= k) + 1, n + 1)
  ELSE IF src[i] = "%" /\ i < Len(src) /\ src[i + 1] = "%"
  THEN [valid |-> FALSE, closed |-> n, open |-> FALSE]
  ELSE IF src[i] \in TokenChars THEN Shape(src, i + 1, n)
  ELSE [valid |-> FALSE, closed |-> n, open |-> FALSE]

OnlyValidTokens(src) == Shape(src, 1, 0).valid /\ ~Shape(src, 1, 0).open
UnterminatedLiteral(src) == Shape(src, 1, 0).valid /\ Shape(src, 1, 0).open

TokensOfType(typ) == {i \in 1..Len(tokens) : tokens[i].typ = typ}
EndsInOneEof == Len(tokens) > 0 /\ TokensOfType("Eof") = {Len(tokens)}

Newlines(chars) == Cardinality({i \in 1..Len(chars) : chars[i] = "\n"})

\* the first scan_token of the run has returned or aborted: it started at 0
\* and has read something, and the Eof token is not yet appended
FirstScanned == start = 0 /\ current > 0 /\ lpc # "done"

\* C11 (as claimed): on a source that opens with a block comment %% body %%,
\* the body free of % (empty, or running over lines), the scan_token that
\* reads the comment returns with no token and no error, with current on the
\* character right after the closing %%, and with line raised by exactly the
\* number of newlines of the body.
C11_BlockComment ==
  \A body \in Bodies, tail \in Tails :
    source = BlockComment(body, tail) /\ FirstScanned =>
      /\ lpc = "scan"
      /\ tokens = <<>>
      /\ errors = <<>>
      /\ current = Len(body) + 4
      /\ line = 1 + Newlines(body)

\* a scan_token appends a token other than Eof
TokenAdded == lpc = "scan" /\ Len(tokens') = Len(tokens) + 1 /\ lpc' # "done"

\* C12 (as claimed): every token scan_token appends carries the line of its
\* first character, which is 1 plus the newlines of the source before the
\* place the scan started at; so does a Str token whose literal runs over
\* several lines.
C12_StartLineStep ==
  TokenAdded => tokens'[Len(tokens')].line = 1 + Newlines(SubSeq(source, 1, start'))

C12_StartLine == [][C12_StartLineStep]_vars

(***************************************************************************)
(* Claims about the parser, checked under SpecParser                       *)
(***************************************************************************)
\* C9 (as claimed): on every token sequence that ends in Eof, cut short or
\* not, parse runs to its end and returns a tree: the parser never aborts,
\* and never reads a token past the end of the sequence.
C9_NeverAborts == ppc # "panic"

\* the node parse is to build for an operand token of type typ under the
\* binary token op, identifiers being operands of comparisons or not
OperandNode(op, typ, in_comparisons) ==
  IF typ = "Number" THEN NodeNumberOf(TokenOf("Number"))
  ELSE IF op = "Less" /\ in_comparisons THEN NodeIdentifier(TokenOf("Identifier").s)
  ELSE NodeNone

BinaryNode(op, lhs, rhs) ==
  IF op = "Less" THEN Check(CheckOf(op), lhs, rhs) ELSE Operator(OperatorOf(op), lhs, rhs)

\* parse has returned on ( let x ( op a b ) ) with the declaration on the
\* tree, its value the block of the binary node over the operands' nodes,
\* and one syntax error for each operand that is a placeholder
OperandsParsed(op, a, b, in_comparisons) ==
  LET lhs == OperandNode(op, a, in_comparisons)
      rhs == OperandNode(op, b, in_comparisons)
      rejected == {i \in 1..2 : <<lhs, rhs>>[i] = NodeNone}
  IN /\ parser.ast = Block(<<Assignement("Let", NodeIdentifier(TokenOf("Identifier").s),
                                          Block(<<BinaryNode(op, lhs, rhs)>>))>>)
     /\ Len(parser.errors) = Cardinality(rejected)
     /\ \A i \in 1..Len(parser.errors) :
          parser.errors[i].msg = "Invalid token" /\ parser.errors[i].typ = "Identifier"
     /\ parser.had_error = (rejected # {})

\* C13 (as claimed): an Identifier token that is an operand of a comparison
\* (parse_verif) yields an identifier node and no syntax error, and one that
\* is an operand of an arithmetic operator (parse_op) yields a placeholder
\* node and a syntax error.
C13_IdentifierInComparison ==
  \A op \in BinaryTypes, a \in OperandTypes, b \in OperandTypes :
    parser.tokens = OperandTokens(op, a, b) /\ ppc = "done" => OperandsParsed(op, a, b, TRUE)

\* C13 (amended): an Identifier token that is an operand yields a placeholder
\* node and a syntax error in parse_verif as in parse_op; parse goes on and
\* returns the tree.
C13_IdentifierRejected ==
  \A op \in BinaryTypes, a \in OperandTypes, b \in OperandTypes :
    parser.tokens = OperandTokens(op, a, b) =>
      /\ ppc # "panic"
      /\ ppc = "done" => OperandsParsed(op, a, b, FALSE)

\* C13 witness: ( let x ( < x 1 ) ) was parsed into the comparison of a
\* placeholder with 1, with one error
C13_Witness ==
  /\ ppc = "done"
  /\ parser.tokens = OperandTokens("Less", "Identifier", "Number")
  /\ Len(parser.errors) = 1
  /\ parser.ast.children[1].children[2].children[1] =
       Check("Less", NodeNone, NodeNumberOf(TokenOf("Number")))

====
